---- MODULE Spec2Model ----
(***************************************************************************)
(* Model of the understanding-bitwise library (src/src/lib.rs).            *)
(*                                                                         *)
(* A u32 is the set of the indices of its set bits (a subset of 0..31), so *)
(* that the full 32-bit width is kept; index, count and u8 values are      *)
(* integers.  Arithmetic on u32 is done on the bits, modulo 2^32.          *)
(***************************************************************************)
EXTENDS Integers, Sequences, FiniteSets, TLC

\* u32::BITS
BITS == 32

\* Numbers are built from the MaxLowBits lowest bits and the top bit.
MaxLowBits == 2
\* Indices and counts range over 0..MaxIndex (32 and above are out of range).
MaxIndex == 33
\* Number of successive calls in one behaviour.
MaxCalls == 2
\* Longest sequence find_unique is called with.
MaxLen == 5
\* Number of times remove_bit is applied to its own result.
MaxApplications == 32

AllBits == 0 .. (BITS - 1)

\* ---- u32 operators on bit sets ----------------------------------------

\* a & b
bitand(a, b) == a \cap b

\* a | b
bitor(a, b) == a \cup b

\* a ^ b
bitxor(a, b) == (a \ b) \cup (b \ a)

\* !a
bitnot(a) == AllBits \ a

\* a << k: bits shifted past bit 31 are lost.  Without overflow checks the
\* shift amount is taken modulo the width (wrapping_shl).
shl(a, k) == LET s == k % BITS IN {j + s : j \in {i \in a : i + s < BITS}}

\* a >> k, the amount taken modulo the width as for shl.
shr(a, k) == LET s == k % BITS IN {j - s : j \in {i \in a : i >= s}}

\* With overflow checks a shift by the width or more panics.
shift_overflow(k) == k >= BITS

\* a < b on u32: the highest bit where they differ is set in b.
lt(a, b) ==
    LET d == bitxor(a, b)
    IN  d # {} /\ (CHOOSE i \in d : \A j \in d : j <= i) \in b

\* With overflow checks a - b panics when a < b.
sub_overflow(a, b) == lt(a, b)

RECURSIVE sub_from(_, _, _, _)
\* Bits i..31 of a - b, given the borrow into bit i.
sub_from(a, b, i, borrow) ==
    IF i = BITS THEN {}
    ELSE LET d == (IF i \in a THEN 1 ELSE 0) - (IF i \in b THEN 1 ELSE 0) - borrow
         IN  (IF d = -1 \/ d = 1 THEN {i} ELSE {})
                 \cup sub_from(a, b, i + 1, IF d < 0 THEN 1 ELSE 0)

\* a - b modulo 2^32 (wrapping_sub).
sub(a, b) == sub_from(a, b, 0, 0)

\* The literal 1
One == {0}

\* u32::MAX
U32_MAX == AllBits

\* ---- values returned ---------------------------------------------------

None == [kind |-> "None"]
Some(v) == [kind |-> "Some", val |-> v]
\* The call did not return: an arithmetic overflow check failed.
Panic == [kind |-> "Panic"]
\* A function that returns a plain integer returned v.
Returned(v) == [kind |-> "Returned", val |-> v]
\* A function that returns nothing returned.
Unit == [kind |-> "Unit"]
\* No call made yet.
NoCall == [kind |-> "NoCall"]

VARIABLES
    overflow_checks,  \* build profile: TRUE = overflow checks on (debug)
    number,           \* the u32 argument of the next call
    index1,           \* index argument
    index2,           \* second index argument of the swaps
    byte,             \* the u8 argument of the circular shifts
    count,            \* shift count, or count of consecutive ones
    bw,               \* the Write object: the bytes written so far
    vals,             \* the sequence find_unique is called with
    power,            \* the u32 argument of power_of_two
    orig,             \* the number or byte the behaviour started from
    hist,             \* names of the functions called so far
    ret               \* what the last call returned

vars == <<overflow_checks, number, index1, index2, byte, count, bw, vals, power, orig, hist, ret>>

\* ---- binary text rendering and population count ---------------------------

RECURSIVE process_binary_until_hob(_)
\* The numbers f is called with, in the order of the calls.
process_binary_until_hob(n) ==
    LET shifted == shr(n, 1)
    IN  IF shifted = {} THEN <<n>>
        ELSE <<n>> \o process_binary_until_hob(shifted)

\* ASCII code of the character 0
ZERO_CHAR_NUM == 48

\* number & 1 as an integer
low_bit(n) == IF bitand(n, One) = One THEN 1 ELSE 0

RECURSIVE push_back_all(_, _)
\* push_front_all with push_back.
push_back_all(calls, list) ==
    IF calls = <<>> THEN list
    ELSE push_back_all(Tail(calls), list \o <<ZERO_CHAR_NUM + low_bit(Head(calls))>>)

RECURSIVE push_front_all(_, _)
\* binary_number_list after write was called with each number of calls.
push_front_all(calls, list) ==
    IF calls = <<>> THEN list
    ELSE push_front_all(Tail(calls), <<ZERO_CHAR_NUM + low_bit(Head(calls))>> \o list)

\* The bytes write_binary_representation(n, bw) passes to bw.write_all.
write_binary_representation(n) ==
    push_front_all(process_binary_until_hob(n), <<>>)

RECURSIVE sum_low_bits(_, _)
sum_low_bits(calls, cnt) ==
    IF calls = <<>> THEN cnt
    ELSE sum_low_bits(Tail(calls), cnt + low_bit(Head(calls)))

binary_ones_count(n) ==
    Returned(sum_low_bits(process_binary_until_hob(n), 0))

RECURSIVE sub_method_loop(_, _)
\* The loop of binary_ones_count_sub_method from the state (n, cnt).
sub_method_loop(n, cnt) ==
    IF overflow_checks /\ sub_overflow(n, One) THEN Panic
    ELSE LET n1 == bitand(n, sub(n, One))
         IN  IF n1 = {} THEN Returned(cnt + 1)
             ELSE sub_method_loop(n1, cnt + 1)

\* binary_ones_count_sub_method without the arm for 0.
binary_ones_count_sub_method_no_zero(n) == sub_method_loop(n, 0)

binary_ones_count_sub_method(n) ==
    IF n = {} THEN Returned(0) ELSE sub_method_loop(n, 0)

\* ---- highest order bit ----------------------------------------------------

no_hob(n) == n = {}

hob(n) ==
    IF no_hob(n) THEN None
    ELSE LET index == Len(process_binary_until_hob(n))
         IN  IF overflow_checks /\ index < 1 THEN Panic ELSE Some(index - 1)

RECURSIVE hob_thr_loop_le(_, _, _)
\* hob_thr_loop with number <= threshold as the loop condition.
hob_thr_loop_le(n, threshold, index) ==
    IF lt(n, threshold) \/ n = threshold
    THEN IF overflow_checks /\ index = 0 THEN Panic
         ELSE hob_thr_loop_le(n, shr(threshold, 1), index - 1)
    ELSE Some(index)

RECURSIVE hob_thr_loop(_, _, _)
\* The loop of hob_thr from the state (threshold, index).  An index below 0
\* stands for one that wrapped around.
hob_thr_loop(n, threshold, index) ==
    IF lt(n, threshold)
    THEN IF overflow_checks /\ index = 0 THEN Panic
         ELSE hob_thr_loop(n, shr(threshold, 1), index - 1)
    ELSE Some(index)

hob_thr(n) ==
    IF no_hob(n) THEN None
    ELSE hob_thr_loop(n, shl(One, BITS - 1), BITS - 1)

RECURSIVE hob_comp_pot_from(_, _)
\* The for loop of hob_comp_pot from i downwards.
hob_comp_pot_from(n, i) ==
    IF i < 0 THEN None
    ELSE LET pow_of_two == shl(One, i)
         IN  IF bitand(n, pow_of_two) = pow_of_two THEN Some(i)
             ELSE hob_comp_pot_from(n, i - 1)

hob_comp_pot(n) ==
    IF no_hob(n) THEN None ELSE hob_comp_pot_from(n, BITS - 1)

\* ---- single-bit manipulation --------------------------------------------

\* f is the value the closure computes, panics whether one of its steps
\* overflows.
manipulate_bit(index, f, panics) ==
    IF index >= BITS THEN None
    ELSE IF overflow_checks /\ panics THEN Panic
    ELSE Some(f)

set_bit(n, index) ==
    manipulate_bit(index, bitor(n, shl(One, index)), shift_overflow(index))

\* unset_bit subtracting the mask without setting the bit first.
unset_bit_no_or(n, index) ==
    manipulate_bit(index,
        sub(n, shl(One, index)),
        shift_overflow(index) \/ sub_overflow(n, shl(One, index)))

unset_bit(n, index) ==
    manipulate_bit(index,
        sub(bitor(n, shl(One, index)), shl(One, index)),
        shift_overflow(index)
            \/ sub_overflow(bitor(n, shl(One, index)), shl(One, index)))

unset_bit_xor(n, index) ==
    manipulate_bit(index, bitand(n, bitxor(n, shl(One, index))),
        shift_overflow(index))

unset_bit_bitwise_not(n, index) ==
    manipulate_bit(index, bitand(n, bitnot(shl(One, index))),
        shift_overflow(index))

invert_bit(n, index) ==
    manipulate_bit(index, bitxor(n, shl(One, index)), shift_overflow(index))

\* ---- bit removal ----------------------------------------------------------

\* remove_bit clearing the bit without moving the bits above it.
remove_bit_clear_only(n, index) ==
    IF ~(index \in 0 .. (BITS - 1)) THEN None
    ELSE IF overflow_checks
            /\ (shift_overflow(index + 1) \/ shift_overflow(index))
    THEN Panic
    ELSE Some(bitand(n, bitnot(shl(One, index))))

remove_bit(n, index) ==
    IF ~(index \in 0 .. (BITS - 1)) THEN None
    ELSE IF overflow_checks
            /\ (shift_overflow(index + 1) \/ shift_overflow(index))
    THEN Panic
    ELSE LET remover0 == bitxor(shr(n, index + 1), shr(n, index))
             remover  == shl(remover0, index)
         IN  Some(bitxor(n, remover))

\* ---- circular shift (u8) ---------------------------------------------------

\* u8::BITS
U8_BITS == 8

RECURSIVE pow2(_)
pow2(k) == IF k = 0 THEN 1 ELSE 2 * pow2(k - 1)

\* u8::shl and u8::shr; without overflow checks the amount is taken modulo 8.
u8_shl(b, k) == (b * pow2(k % U8_BITS)) % pow2(U8_BITS)

u8_shr(b, k) == b \div pow2(k % U8_BITS)

\* a | b on u8
RECURSIVE u8_bitor(_, _, _)
u8_bitor(a, b, width) ==
    IF width = 0 THEN 0
    ELSE (IF a % 2 = 1 \/ b % 2 = 1 THEN 1 ELSE 0)
             + 2 * u8_bitor(a \div 2, b \div 2, width - 1)

\* circular_sh_base with f2 shifting by count instead of u8::BITS - count.
circular_sh_base_same_count(b, cnt, left) ==
    IF b = 0 THEN Returned(0)
    ELSE LET safe_count == cnt % U8_BITS
         IN  IF safe_count = 0 THEN Returned(b)
             ELSE IF left
                  THEN Returned(u8_bitor(u8_shl(b, safe_count),
                                         u8_shr(b, safe_count), U8_BITS))
                  ELSE Returned(u8_bitor(u8_shr(b, safe_count),
                                         u8_shl(b, safe_count), U8_BITS))

\* left: f1 is u8::shl and f2 is u8::shr; otherwise the other way round.
circular_sh_base(b, cnt, left) ==
    IF b = 0 THEN Returned(0)
    ELSE LET safe_count == cnt % U8_BITS
         IN  IF safe_count = 0 THEN Returned(b)
             ELSE IF overflow_checks
                     /\ (safe_count >= U8_BITS \/ U8_BITS - safe_count < 0
                         \/ U8_BITS - safe_count >= U8_BITS)
             THEN Panic
             ELSE IF left
                  THEN Returned(u8_bitor(u8_shl(b, safe_count),
                                         u8_shr(b, U8_BITS - safe_count), U8_BITS))
                  ELSE Returned(u8_bitor(u8_shr(b, safe_count),
                                         u8_shl(b, U8_BITS - safe_count), U8_BITS))

circular_shl(b, cnt) == circular_sh_base(b, cnt, TRUE)

circular_shr(b, cnt) == circular_sh_base(b, cnt, FALSE)

\* ---- consecutive ones -------------------------------------------------------

PEN_BIT == BITS - 1

consecutive_ones_number(consecutive_ones_count) ==
    IF consecutive_ones_count \in 1 .. PEN_BIT
    THEN IF overflow_checks
            /\ (shift_overflow(consecutive_ones_count)
                \/ sub_overflow(shl(One, consecutive_ones_count), One))
         THEN Panic
         ELSE Some(sub(shl(One, consecutive_ones_count), One))
    ELSE IF consecutive_ones_count = BITS THEN Some(U32_MAX)
    ELSE None

MAX_BIT == shl(One, BITS - 1)

RECURSIVE entries_count_loop_break_first(_, _, _)
\* entries_count_loop leaving the loop before it tries the last alignment.
entries_count_loop_break_first(n, pattern, matches) ==
    IF bitand(pattern, MAX_BIT) = MAX_BIT THEN Some(matches)
    ELSE entries_count_loop_break_first(n, shl(pattern, 1),
             IF bitand(pattern, n) = pattern THEN matches + 1 ELSE matches)

RECURSIVE entries_count_loop(_, _, _)
\* The loop of consecutive_ones_entries_count from the state (pattern, matches).
entries_count_loop(n, pattern, matches) ==
    LET matches1 == IF bitand(pattern, n) = pattern THEN matches + 1 ELSE matches
    IN  IF bitand(pattern, MAX_BIT) = MAX_BIT THEN Some(matches1)
        ELSE entries_count_loop(n, shl(pattern, 1), matches1)

consecutive_ones_entries_count(n, consecutive_ones_count) ==
    LET pattern == consecutive_ones_number(consecutive_ones_count)
    IN  IF pattern.kind # "Some" THEN pattern
        ELSE entries_count_loop(n, pattern.val, 0)

\* ---- power of two -------------------------------------------------------------

\* Unit struct Overflow
Overflow == "Overflow"

Ok(v) == [kind |-> "Ok", val |-> v]

Err(e) == [kind |-> "Err", err |-> e]

RECURSIVE u32_of(_)
\* The u32 with the value of the integer k.
u32_of(k) ==
    IF k = 0 THEN {}
    ELSE (IF k % 2 = 1 THEN {0} ELSE {}) \cup {i + 1 : i \in u32_of(k \div 2)}

RECURSIVE int_of(_)
\* The value of a u32 below 2^31 as an integer.
int_of(a) ==
    IF a = {} THEN 0
    ELSE LET i == CHOOSE j \in a : TRUE IN pow2(i) + int_of(a \ {i})

\* a << b where the amount b is a u32: without overflow checks the amount is
\* b modulo the width.
shl_u32(a, b) == shl(a, int_of({i \in b : pow2(i) < BITS}))

\* power_of_two with power <= u32::BITS as its condition.
power_of_two_le(p) ==
    IF lt(p, u32_of(BITS)) \/ p = u32_of(BITS)
    THEN IF overflow_checks /\ ~lt(p, u32_of(BITS)) THEN Panic
         ELSE Ok(shl_u32(One, p))
    ELSE Err(Overflow)

power_of_two(p) ==
    IF lt(p, u32_of(BITS))
    THEN IF overflow_checks /\ ~lt(p, u32_of(BITS)) THEN Panic
         ELSE Ok(shl_u32(One, p))
    ELSE Err(Overflow)

\* ---- bit-pair swap ---------------------------------------------------------

\* swap_bits_base comparing the indices before it checks the limits.
swap_bits_base_eq_first(n, i1, i2, f, panics) ==
    IF i1 = i2 THEN Some(n)
    ELSE IF ~(i1 \in 0 .. (BITS - 1)) \/ ~(i2 \in 0 .. (BITS - 1)) THEN None
    ELSE IF overflow_checks /\ panics THEN Panic
    ELSE Some(f)

\* f and panics as for manipulate_bit.
swap_bits_base(n, i1, i2, f, panics) ==
    IF ~(i1 \in 0 .. (BITS - 1)) \/ ~(i2 \in 0 .. (BITS - 1)) THEN None
    ELSE IF i1 = i2 THEN Some(n)
    ELSE IF overflow_checks /\ panics THEN Panic
    ELSE Some(f)

swap_bits(n, i1, i2) ==
    LET min_index == IF i1 > i2 THEN i2 ELSE i1
        max_index == IF i1 > i2 THEN i1 ELSE i2
        distance == max_index - min_index
        min_index_number == shl(One, min_index)
        max_index_number == shl(One, max_index)
    IN  swap_bits_base(n, i1, i2,
            bitor(bitor(bitand(n, bitxor(bitxor(n, min_index_number), max_index_number)),
                        bitand(shr(n, distance), min_index_number)),
                  bitand(shl(n, distance), max_index_number)),
            distance < 0 \/ shift_overflow(min_index) \/ shift_overflow(max_index)
                \/ shift_overflow(distance))

\* swap_bits_xor toggling the bit at index1 only.
swap_bits_xor_one_side(n, i1, i2) ==
    LET bit1 == bitand(shr(n, i1), One)
        bit2 == bitand(shr(n, i2), One)
        swapper0 == bitxor(bit1, bit2)
        swapper == shl(swapper0, i1)
    IN  swap_bits_base(n, i1, i2, bitxor(n, swapper),
            shift_overflow(i1) \/ shift_overflow(i2))

swap_bits_xor(n, i1, i2) ==
    LET bit1 == bitand(shr(n, i1), One)
        bit2 == bitand(shr(n, i2), One)
        swapper0 == bitxor(bit1, bit2)
        swapper == bitor(shl(swapper0, i1), shl(swapper0, i2))
    IN  swap_bits_base(n, i1, i2, bitxor(n, swapper),
            shift_overflow(i1) \/ shift_overflow(i2))

\* ---- unique element ---------------------------------------------------------

RECURSIVE find_unique_fold_or(_, _)
\* find_unique_fold combining with | instead of ^.
find_unique_fold_or(vs, acc) ==
    IF vs = <<>> THEN acc
    ELSE find_unique_fold_or(Tail(vs),
             IF acc = None THEN Some(Head(vs))
             ELSE Some(bitor(acc.val, Head(vs))))

RECURSIVE find_unique_fold(_, _)
\* The fold over the rest vs of the sequence from the accumulator acc.
find_unique_fold(vs, acc) ==
    IF vs = <<>> THEN acc
    ELSE find_unique_fold(Tail(vs),
             IF acc = None THEN Some(Head(vs))
             ELSE Some(bitxor(acc.val, Head(vs))))

find_unique(vs) == find_unique_fold(vs, None)

\* ---- inputs ---------------------------------------------------------------

\* Numbers of the tests: 0b11100100, 0b100011, 0b111011011, 1982,
\* 0b1111111111011110000001 and 0b1010...10.
TestNumbers ==
    { {2, 5, 6, 7}, {0, 1, 5}, {0, 1, 3, 4, 6, 7, 8},
      {1, 2, 3, 4, 5, 7, 8, 9, 10},
      {0} \cup (7 .. 10) \cup (12 .. 21),
      {i \in AllBits : i % 2 = 1} }

Sparse == SUBSET ((0 .. (MaxLowBits - 1)) \cup {BITS - 1})

Numbers == Sparse \cup {bitnot(s) : s \in Sparse} \cup TestNumbers

Indices == 0 .. MaxIndex

\* ---- calls ----------------------------------------------------------------

\* The argument of the next call: the value the last call returned, if any.
arg == IF ret.kind = "Some" THEN ret.val ELSE number

\* The function called last.
last == IF hist = <<>> THEN "none" ELSE hist[Len(hist)]

\* A call of function name on arg that returns r.
Call(name, r) ==
    /\ Len(hist) < MaxCalls
    /\ ret.kind \in {"NoCall", "Some"}
    /\ hist' = Append(hist, name)
    /\ ret' = r
    /\ number' = arg
    /\ UNCHANGED <<overflow_checks, index1, index2, byte, count, bw, vals, power, orig>>

SetBit == Call("set_bit", set_bit(arg, index1))

UnsetBit == Call("unset_bit", unset_bit(arg, index1))

UnsetBitXor == Call("unset_bit_xor", unset_bit_xor(arg, index1))

UnsetBitBitwiseNot ==
    Call("unset_bit_bitwise_not", unset_bit_bitwise_not(arg, index1))

InvertBit == Call("invert_bit", invert_bit(arg, index1))

RemoveBit == Call("remove_bit", remove_bit(arg, index1))

SwapBits == Call("swap_bits", swap_bits(arg, index1, index2))

SwapBitsXor == Call("swap_bits_xor", swap_bits_xor(arg, index1, index2))

\* ---- one-index functions, called in succession ----------------------------

InitBit ==
    /\ overflow_checks \in BOOLEAN
    /\ number \in Numbers
    /\ byte = 0
    /\ count = 0
    /\ bw = <<>>
    /\ vals = <<>>
    /\ power = {}
    /\ index1 \in Indices
    /\ index2 = 0
    /\ orig = number
    /\ hist = <<>>
    /\ ret = NoCall

NextBit ==
    \/ SetBit
    \/ UnsetBit
    \/ UnsetBitXor
    \/ UnsetBitBitwiseNot
    \/ InvertBit
    \/ RemoveBit

SpecBit == InitBit /\ [][NextBit]_vars

\* ---- one call of an index function on any pair of indices -----------------

InitSwap ==
    /\ overflow_checks \in BOOLEAN
    /\ number \in Numbers
    /\ byte = 0
    /\ count = 0
    /\ bw = <<>>
    /\ vals = <<>>
    /\ power = {}
    /\ index1 \in Indices
    /\ index2 \in Indices
    /\ orig = number
    /\ hist = <<>>
    /\ ret = NoCall

NextSwap ==
    \/ hist = <<>> /\ NextBit
    \/ hist = <<>> /\ SwapBits
    \/ hist = <<>> /\ SwapBitsXor

SpecSwap == InitSwap /\ [][NextSwap]_vars

\* ---- one call of a function of the number alone ---------------------------

\* Numbers whose set bits are one run lo..hi: every highest bit, every length.
Runs == {lo .. hi : lo \in AllBits, hi \in AllBits}

\* What the Write object may hold before the call.
Sinks == {<<>>, <<ZERO_CHAR_NUM + 1>>}

Hob == Call("hob", hob(arg))

HobThr == Call("hob_thr", hob_thr(arg))

HobCompPot == Call("hob_comp_pot", hob_comp_pot(arg))

BinaryOnesCount == Call("binary_ones_count", binary_ones_count(arg))

BinaryOnesCountSubMethod ==
    Call("binary_ones_count_sub_method", binary_ones_count_sub_method(arg))

\* write_all appends the bytes to the Write object.
WriteBinaryRepresentation ==
    /\ Len(hist) < MaxCalls
    /\ ret.kind \in {"NoCall", "Some"}
    /\ hist' = Append(hist, "write_binary_representation")
    /\ bw' = bw \o write_binary_representation(arg)
    /\ ret' = Unit
    /\ number' = arg
    /\ UNCHANGED <<overflow_checks, index1, index2, byte, count, vals, power, orig>>

InitWord ==
    /\ overflow_checks \in BOOLEAN
    /\ number \in Numbers \cup Runs
    /\ index1 = 0
    /\ index2 = 0
    /\ byte = 0
    /\ count = 0
    /\ bw \in Sinks
    /\ vals = <<>>
    /\ power = {}
    /\ orig = number
    /\ hist = <<>>
    /\ ret = NoCall

NextWord ==
    \/ hist = <<>> /\ Hob
    \/ hist = <<>> /\ HobThr
    \/ hist = <<>> /\ HobCompPot
    \/ hist = <<>> /\ BinaryOnesCount
    \/ hist = <<>> /\ BinaryOnesCountSubMethod
    \/ hist = <<>> /\ WriteBinaryRepresentation

SpecWord == InitWord /\ [][NextWord]_vars

\* ---- one call of consecutive_ones_entries_count ----------------------------

ConsecutiveOnesEntriesCount ==
    Call("consecutive_ones_entries_count",
         consecutive_ones_entries_count(arg, count))

InitRun ==
    /\ overflow_checks \in BOOLEAN
    /\ number \in Numbers \cup Runs
    /\ index1 = 0
    /\ index2 = 0
    /\ byte = 0
    /\ count \in Indices
    /\ bw = <<>>
    /\ vals = <<>>
    /\ power = {}
    /\ orig = number
    /\ hist = <<>>
    /\ ret = NoCall

NextRun == hist = <<>> /\ ConsecutiveOnesEntriesCount

SpecRun == InitRun /\ [][NextRun]_vars

\* ---- circular shifts, called in succession ---------------------------------

\* The argument of the next circular shift: the byte the last one returned.
arg_byte == IF ret.kind = "Returned" THEN ret.val ELSE byte

CallByte(name, r) ==
    /\ Len(hist) < MaxCalls
    /\ ret.kind \in {"NoCall", "Returned"}
    /\ hist' = Append(hist, name)
    /\ ret' = r
    /\ byte' = arg_byte
    /\ UNCHANGED <<overflow_checks, number, index1, index2, count, bw, vals, power, orig>>

CircularShl == CallByte("circular_shl", circular_shl(arg_byte, count))

CircularShr == CallByte("circular_shr", circular_shr(arg_byte, count))

InitByte ==
    /\ overflow_checks \in BOOLEAN
    /\ number = {}
    /\ index1 = 0
    /\ index2 = 0
    /\ byte \in 0 .. (pow2(U8_BITS) - 1)
    /\ count \in Indices
    /\ bw = <<>>
    /\ vals = <<>>
    /\ power = {}
    /\ orig = byte
    /\ hist = <<>>
    /\ ret = NoCall

NextByte ==
    \/ CircularShl
    \/ CircularShr

SpecByte == InitByte /\ [][NextByte]_vars

\* ---- one call of find_unique -------------------------------------------------

\* Elements of the sequences: 0, 1, 2 and 3 = 1 ^ 2.
Elements == {{}, {0}, {1}, {0, 1}}

ValSequences == UNION {[1 .. n -> Elements] : n \in 0 .. MaxLen}

FindUnique == Call("find_unique", find_unique(vals))

InitUnique ==
    /\ overflow_checks \in BOOLEAN
    /\ number = {}
    /\ index1 = 0
    /\ index2 = 0
    /\ byte = 0
    /\ count = 0
    /\ bw = <<>>
    /\ vals \in ValSequences
    /\ power = {}
    /\ orig = number
    /\ hist = <<>>
    /\ ret = NoCall

NextUnique == hist = <<>> /\ FindUnique

SpecUnique == InitUnique /\ [][NextUnique]_vars

\* ---- one call of power_of_two -------------------------------------------------

\* Exponents: 0..MaxIndex and the numbers, u32::MAX among them.
Powers == {u32_of(k) : k \in Indices} \cup Numbers

PowerOfTwo ==
    /\ Len(hist) < MaxCalls
    /\ hist' = Append(hist, "power_of_two")
    /\ ret' = power_of_two(power)
    /\ UNCHANGED <<overflow_checks, number, index1, index2, byte, count, bw,
                   vals, power, orig>>

InitPower ==
    /\ overflow_checks \in BOOLEAN
    /\ number = {}
    /\ index1 = 0
    /\ index2 = 0
    /\ byte = 0
    /\ count = 0
    /\ bw = <<>>
    /\ vals = <<>>
    /\ power \in Powers
    /\ orig = number
    /\ hist = <<>>
    /\ ret = NoCall

NextPower == hist = <<>> /\ PowerOfTwo

SpecPower == InitPower /\ [][NextPower]_vars

\* ---- remove_bit folded over its own result -------------------------------------

\* One step of the fold: remove_bit applied to what it returned last.
RemoveBitFold ==
    /\ Len(hist) < MaxApplications
    /\ ret.kind \in {"NoCall", "Some"}
    /\ hist' = Append(hist, "remove_bit")
    /\ ret' = remove_bit(arg, index1)
    /\ number' = arg
    /\ UNCHANGED <<overflow_checks, index1, index2, byte, count, bw, vals,
                   power, orig>>

InitFold ==
    /\ overflow_checks \in BOOLEAN
    /\ number \in Numbers
    /\ index1 \in Indices
    /\ index2 = 0
    /\ byte = 0
    /\ count = 0
    /\ bw = <<>>
    /\ vals = <<>>
    /\ power = {}
    /\ orig = number
    /\ hist = <<>>
    /\ ret = NoCall

NextFold == RemoveBitFold

SpecFold == InitFold /\ [][NextFold]_vars

\* ---- properties ------------------------------------------------------------

Unsets == {"unset_bit", "unset_bit_xor", "unset_bit_bitwise_not"}

Swaps == {"swap_bits", "swap_bits_xor"}

InRange(i) == i \in 0 .. (BITS - 1)

\* C1: for every number and every index in 0..=31, index 31 included,
\* remove_bit(number, index) returns a present value r whose bits below index
\* are those of number, whose bits j with index <= j <= 30 are bits j+1 of
\* number, and whose bit 31 is 0.
C1_RemoveBitCompacts ==
    (last = "remove_bit" /\ InRange(index1)) =>
        /\ ret.kind = "Some"
        /\ \A j \in AllBits :
              (j \in ret.val) <=>
                  IF j < index1 THEN j \in number
                  ELSE j <= BITS - 2 /\ (j + 1) \in number

\* C2: every call finishes and returns a value, with no step that shifts by
\* the word width or more, subtracts below 0 or exceeds the word's maximum.
C2_EveryCallReturns ==
    last # "none" => ret.kind # "Panic"

\* C3: set_bit, the three unset_bit variants and invert_bit return None exactly
\* when index >= 32 and a present value otherwise; swap_bits and swap_bits_xor
\* return None exactly when index1 >= 32 or index2 >= 32, also when the two
\* are equal; remove_bit returns None whenever index >= 32.
C3_RangeGuard ==
    /\ last \in {"set_bit", "invert_bit"} \cup Unsets =>
          /\ ret = None <=> index1 >= BITS
          /\ index1 < BITS => ret.kind = "Some"
    /\ last \in Swaps =>
          (ret = None <=> (index1 >= BITS \/ index2 >= BITS))
    /\ last = "remove_bit" /\ index1 >= BITS => ret = None

\* C3 witness: a swap of an out-of-range index with itself returned None.
C3_Witness ==
    /\ last = "swap_bits"
    /\ index1 = index2
    /\ index1 >= BITS
    /\ ret = None

\* C4: for every number and indices i, j in 0..=31, swap_bits and
\* swap_bits_xor return the same present value r: bit i of r is bit j of
\* number, bit j of r is bit i of number, every other bit is that of number.
C4_SwapsAgree ==
    (last \in Swaps /\ InRange(index1) /\ InRange(index2)) =>
        /\ ret.kind = "Some"
        /\ \A b \in AllBits :
              (b \in ret.val) <=>
                  IF b = index1 THEN index2 \in number
                  ELSE IF b = index2 THEN index1 \in number
                  ELSE b \in number
        /\ ret = swap_bits(number, index1, index2)
        /\ ret = swap_bits_xor(number, index1, index2)

\* C4 witness: a swap of two bits of different values, the higher index first.
C4_Witness ==
    /\ last = "swap_bits"
    /\ InRange(index1) /\ InRange(index2)
    /\ index1 > index2
    /\ (index1 \in number) # (index2 \in number)
    /\ ret.kind = "Some"
    /\ ret.val # number

\* C7: for every number and index in 0..=31 the three unset_bit variants
\* return the same present value r: bit index of r is 0 and every other bit is
\* that of number; hence unsetting the bit set_bit has just set in x gives
\* back x when the bit was 0 in x.
C7_UnsetsAgree ==
    /\ (last \in Unsets /\ InRange(index1)) =>
          /\ ret = Some(number \ {index1})
          /\ ret = unset_bit(number, index1)
          /\ ret = unset_bit_xor(number, index1)
          /\ ret = unset_bit_bitwise_not(number, index1)
    /\ (Len(hist) = 2 /\ hist[1] = "set_bit" /\ hist[2] \in Unsets
            /\ InRange(index1) /\ index1 \notin orig) =>
          ret = Some(orig)

\* C7 witness: unset_bit undid set_bit on a bit that was 0.
C7_Witness ==
    /\ hist = <<"set_bit", "unset_bit">>
    /\ InRange(index1)
    /\ index1 \notin orig
    /\ index1 \in number
    /\ ret = Some(orig)

Hobs == {"hob", "hob_thr", "hob_comp_pot"}

\* C5: for every number above 0, hob, hob_thr and hob_comp_pot return the same
\* present index k with 2^k <= number < 2^(k+1); for 0 all three return None.
C5_HobsAgree ==
    last \in Hobs =>
        /\ number = {} => ret = None
        /\ number # {} =>
              /\ ret.kind = "Some"
              /\ InRange(ret.val)
              /\ ~lt(number, shl(One, ret.val))
              /\ ret.val < BITS - 1 => lt(number, shl(One, ret.val + 1))
        /\ ret = hob(number)
        /\ ret = hob_thr(number)
        /\ ret = hob_comp_pot(number)

\* C5 witness: hob_thr lowered the threshold down to bit 0.
C5_Witness ==
    /\ last = "hob_thr"
    /\ number = One
    /\ ret = Some(0)

\* C6: for every number, binary_ones_count and binary_ones_count_sub_method
\* return the same value, the number of set bits (0 for 0, 32 for all-ones).
C6_OnesCountsAgree ==
    last \in {"binary_ones_count", "binary_ones_count_sub_method"} =>
        /\ ret = Returned(Cardinality(number))
        /\ ret = binary_ones_count(number)
        /\ ret = binary_ones_count_sub_method(number)

\* C6 witness: the subtraction method counted the 32 bits of u32::MAX.
C6_Witness ==
    /\ last = "binary_ones_count_sub_method"
    /\ number = U32_MAX
    /\ ret = Returned(BITS)

\* C8: for every byte and every count, 0, multiples of 8 and counts above 8
\* included, circular_shr(circular_shl(byte, count), count) = byte and
\* circular_shl(circular_shr(byte, count), count) = byte.
C8_CircularShiftsInverse ==
    (hist = <<"circular_shl", "circular_shr">>
        \/ hist = <<"circular_shr", "circular_shl">>) =>
        ret = Returned(orig)

\* C8 witness: a byte that a rotation by more than 8 changes was restored.
C8_Witness ==
    /\ hist = <<"circular_shl", "circular_shr">>
    /\ count > U8_BITS
    /\ byte # orig
    /\ ret = Returned(orig)

\* C9: consecutive_ones_entries_count(number, run_length) is None when
\* run_length is 0 or above 32; otherwise it is the number of positions p,
\* 0 <= p <= 32 - run_length, with bits p..p+run_length-1 of number all set.
C9_EntriesCount ==
    last = "consecutive_ones_entries_count" =>
        IF count = 0 \/ count > BITS THEN ret = None
        ELSE ret = Some(Cardinality(
                 {p \in 0 .. (BITS - count) :
                     \A k \in p .. (p + count - 1) : k \in number}))

\* C9 witness: a run of 32 matched u32::MAX once.
C9_Witness ==
    /\ last = "consecutive_ones_entries_count"
    /\ count = BITS
    /\ number = U32_MAX
    /\ ret = Some(1)

RECURSIVE parse_binary(_, _)
\* The number whose base-2 numeral is the digits, read after the value v.
parse_binary(digits, v) ==
    IF digits = <<>> THEN v
    ELSE parse_binary(Tail(digits),
             bitor(shl(v, 1), IF Head(digits) = ZERO_CHAR_NUM + 1 THEN One ELSE {}))

\* C10: write_binary_representation appends to the sink exactly the minimal
\* binary digits of number, most significant first: "0" for 0, otherwise
\* hob(number)+1 characters '0'/'1' starting with '1'; read back as a base-2
\* numeral they give number.
C10_WritesMinimalBinary ==
    [][(hist = <<>> /\ hist' = <<"write_binary_representation">>) =>
          LET digits == SubSeq(bw', Len(bw) + 1, Len(bw'))
          IN  /\ bw' = bw \o digits
              /\ \A i \in 1 .. Len(digits) :
                    digits[i] \in {ZERO_CHAR_NUM, ZERO_CHAR_NUM + 1}
              /\ number = {} => digits = <<ZERO_CHAR_NUM>>
              /\ number # {} =>
                    /\ Len(digits) = hob(number).val + 1
                    /\ digits[1] = ZERO_CHAR_NUM + 1
              /\ parse_binary(digits, {}) = number]_vars

\* C10 witness: 0b11100100 was appended to a sink that held a byte.
C10_Witness ==
    /\ last = "write_binary_representation"
    /\ number = {2, 5, 6, 7}
    /\ bw = <<49, 49, 49, 49, 48, 48, 49, 48, 48>>

\* Number of occurrences of v in the sequence vs.
occurrences(vs, v) == Cardinality({i \in DOMAIN vs : vs[i] = v})

\* C11: find_unique returns None for an empty sequence; for a non-empty
\* sequence in which exactly one value occurs an odd number of times and every
\* other value an even number of times it returns that value, whatever the
\* order of the elements and also when that value is 0.
C11_FindUnique ==
    last = "find_unique" =>
        /\ vals = <<>> => ret = None
        /\ \A v \in Elements :
              (/\ occurrences(vals, v) % 2 = 1
               /\ \A w \in Elements \ {v} : occurrences(vals, w) % 2 = 0) =>
                  ret = Some(v)

\* C11 witness: 0 was found between two pairs, the pairs not adjacent.
C11_Witness ==
    /\ last = "find_unique"
    /\ vals = <<{0}, {0, 1}, {}, {0}, {0, 1}>>
    /\ ret = Some({})

\* C12: for every power in 0..=31, power_of_two(power) returns Ok(2^power);
\* for every power >= 32, u32::MAX included, it returns Err(Overflow), an error
\* of its own kind and not None.
C12_PowerOfTwo ==
    last = "power_of_two" =>
        IF \E k \in AllBits : power = u32_of(k)
        THEN \A k \in AllBits : power = u32_of(k) => ret = Ok({k})
        ELSE ret = Err(Overflow) /\ ret # None

\* C12 witness: the exponent u32::MAX gave Err(Overflow).
C12_Witness ==
    /\ last = "power_of_two"
    /\ power = U32_MAX
    /\ ret = Err(Overflow)

\* C13: from u32::MAX, remove_bit applied at index 0 again and again returns a
\* present value every time; after k applications, 0 <= k <= 31, the value is
\* u32::MAX >> k (bits 0..31-k set), and after 31 applications it is 1.
C13_RemoveBitFold ==
    (orig = U32_MAX /\ index1 = 0 /\ Len(hist) <= BITS - 1) =>
        /\ hist = <<>> => number = U32_MAX
        /\ hist # <<>> =>
              /\ \A i \in DOMAIN hist : hist[i] = "remove_bit"
              /\ ret = Some(0 .. (BITS - 1 - Len(hist)))
        /\ Len(hist) = BITS - 1 => ret = Some(One)

\* C13 witness: the 31st application returned 1.
C13_Witness ==
    /\ orig = U32_MAX
    /\ index1 = 0
    /\ Len(hist) = BITS - 1
    /\ number = {0, 1}
    /\ ret = Some(One)

====
